---- MODULE Spec2Model ----
(***************************************************************************)
(* Model of pdf_to_csv/app.py: the /pdf-to-csv request handler, the two    *)
(* pipeline stages that call the remote API, and the retry wrapper         *)
(* make_api_request_with_retry.                                            *)
(*                                                                         *)
(* Text is a sequence of one-character strings.  Durations are integers    *)
(* in tenths of a second.  One behaviour is one request.                   *)
(***************************************************************************)
EXTENDS Integers, Sequences, FiniteSets, TLC

(***************************************************************************)
(* Bounds                                                                  *)
(***************************************************************************)
\* largest number of page images the rasterizer returns
MaxPages == 2
\* longest generated chat-model output (over FenceAlphabet)
MaxLen == 3

(***************************************************************************)
(* Program constants                                                       *)
(***************************************************************************)
\* max_retries=5, the default of make_api_request_with_retry
max_retries == 5
\* wait_time = 5, the default wait of the 429 branch (seconds)
DefaultWait == 5

(***************************************************************************)
(* Text helpers: the Python str operations the code uses                   *)
(***************************************************************************)
Whitespace == {" ", "\n"}

\* the backquote character (written as a token: the lexer of TLA+ strings
\* does not accept the character itself)
BT == "BT"
\* the fence literal of text_to_csv: three backquotes
Fence == <<BT, BT, BT>>
\* the literal 'csv'
CsvTag == <<"c", "s", "v">>
\* the literal '.pdf'
PdfSuffix == <<".", "p", "d", "f">>

\* str.lower() on one character (the letters the inputs use)
LowerChar(c) ==
    CASE c = "P" -> "p"
      [] c = "D" -> "d"
      [] c = "F" -> "f"
      [] c = "A" -> "a"
      [] OTHER -> c

\* str.lower()
Lower(s) == [i \in 1..Len(s) |-> LowerChar(s[i])]

\* str.endswith(suf)
EndsWith(s, suf) ==
    /\ Len(s) >= Len(suf)
    /\ SubSeq(s, Len(s) - Len(suf) + 1, Len(s)) = suf

\* str.startswith(pre)
StartsWith(s, pre) ==
    /\ Len(s) >= Len(pre)
    /\ SubSeq(s, 1, Len(pre)) = pre

\* sub occurs in s at position i
OccursAt(s, sub, i) ==
    /\ i >= 1
    /\ i + Len(sub) - 1 <= Len(s)
    /\ SubSeq(s, i, i + Len(sub) - 1) = sub

\* sub in s
Contains(s, sub) == \E i \in 1..Len(s) : OccursAt(s, sub, i)

\* str.find(sub, from): the first position >= from where sub occurs, 0 if none
FindFrom(s, sub, from) ==
    LET hits == {i \in from..Len(s) : OccursAt(s, sub, i)}
    IN  IF hits = {} THEN 0 ELSE CHOOSE i \in hits : \A k \in hits : i <= k

\* s.split(sep)[1], for s that contains sep: the text between the first
\* occurrence of sep and the next occurrence after it (or the end of s)
SplitSecond(s, sep) ==
    LET first == FindFrom(s, sep, 1)
        start == first + Len(sep)
        next  == FindFrom(s, sep, start)
    IN  IF next = 0 THEN SubSeq(s, start, Len(s))
        ELSE SubSeq(s, start, next - 1)

\* str.strip()
Strip(s) ==
    LET keep == {i \in 1..Len(s) : s[i] \notin Whitespace}
    IN  IF keep = {} THEN <<>>
        ELSE LET lo == CHOOSE i \in keep : \A k \in keep : i <= k
                 hi == CHOOSE i \in keep : \A k \in keep : i >= k
             IN  SubSeq(s, lo, hi)

Digits == {"0", "1", "2", "3", "4", "5", "6", "7", "8", "9"}

DigitVal(c) ==
    CASE c = "0" -> 0 [] c = "1" -> 1 [] c = "2" -> 2 [] c = "3" -> 3
      [] c = "4" -> 4 [] c = "5" -> 5 [] c = "6" -> 6 [] c = "7" -> 7
      [] c = "8" -> 8 [] c = "9" -> 9

RECURSIVE DigitsVal(_)
DigitsVal(s) ==
    IF s = <<>> THEN 0
    ELSE 10 * DigitsVal(SubSeq(s, 1, Len(s) - 1)) + DigitVal(s[Len(s)])

\* int(text): surrounding whitespace is ignored, then an optional sign and
\* one or more decimal digits; anything else is a ValueError (ok = FALSE)
ParseInt(text) ==
    LET s      == Strip(text)
        signed == s # <<>> /\ s[1] \in {"+", "-"}
        body   == IF signed THEN Tail(s) ELSE s
    IN  IF body # <<>> /\ \A i \in 1..Len(body) : body[i] \in Digits
        THEN [ok |-> TRUE,
              val |-> IF signed /\ s[1] = "-" THEN 0 - DigitsVal(body)
                      ELSE DigitsVal(body)]
        ELSE [ok |-> FALSE, val |-> 0]

RECURSIVE Pow2(_)
\* 2 ** n
Pow2(n) == IF n = 0 THEN 1 ELSE 2 * Pow2(n - 1)

(***************************************************************************)
(* Inputs                                                                  *)
(***************************************************************************)
\* the filename of the uploaded part (file.filename)
Filenames ==
    { <<>>,
      <<"a", ".", "p", "d", "f">>,
      <<"A", ".", "P", "D", "F">>,
      <<".", "p", "d", "F">>,
      <<"p", "d", "f">>,
      <<"a", ".", "p", "d", "f", "x">>,
      <<"a", ".", "p", "d">> }

\* a request: whether the multipart form has a 'file' part, and its filename
Requests ==
    {[has_file |-> FALSE, filename |-> <<>>]}
        \cup {[has_file |-> TRUE, filename |-> f] : f \in Filenames}

\* the headers of a 429 response, as far as the code reads them
RetryAfterHeaders ==
    { [present |-> FALSE, value |-> <<>>],
      [present |-> TRUE,  value |-> <<"2">>],
      [present |-> TRUE,  value |-> <<"-", "1">>],
      [present |-> TRUE,  value |-> <<"2", ".", "5">>],
      [present |-> TRUE,  value |-> <<"W", "e", "d">>] }

NoHeaders == [present |-> FALSE, value |-> <<>>]

\* sample values of random.uniform(0.5, 1.5), in tenths of a second (the
\* lowest value, a middle one and one close to the upper end)
Jitters == {5, 10, 14}

\* HTTP statuses for which raise_for_status raises, other than 429
ErrorStatuses == {400, 500}

\* the text a vision-model response carries
VisionTexts == {<<"T">>}

FenceAlphabet == {BT, "a", " "}

RECURSIVE TextsUpTo(_)
\* all texts over FenceAlphabet of length at most n
TextsUpTo(n) ==
    IF n = 0 THEN {<<>>}
    ELSE LET shorter == TextsUpTo(n - 1)
         IN  shorter \cup {Append(t, c) : t \in shorter, c \in FenceAlphabet}

\* outputs of the chat model
ChatOutputs ==
    TextsUpTo(MaxLen) \cup
    { <<"a", ",", "b">>,
      <<" ", "a", ",", "b", "\n">>,
      <<"a", BT, BT, "b">>,
      Fence \o <<"a", ",", "b">> \o Fence,
      Fence \o CsvTag \o <<"\n", "a", ",", "b", "\n">> \o Fence,
      Fence \o <<"\n", "a", ",", "b", "\n">> \o Fence \o <<"\n">>,
      <<" ">> \o Fence \o CsvTag \o <<"a">> \o Fence,
      Fence \o <<"\n">> \o CsvTag \o <<",", "a">> \o Fence,
      <<"x", "\n">> \o Fence \o <<"a">> \o Fence \o <<"y">>,
      Fence \o <<"a">> \o Fence \o <<"b">> \o Fence \o <<"c">> \o Fence,
      Fence \o CsvTag \o <<"\n", "a">> }

(***************************************************************************)
(* State                                                                   *)
(***************************************************************************)
VARIABLES
    request,      \* the upload: request.files
    pc,           \* position of pdf_to_csv
    images,       \* number of page images (len(images))
    idx,          \* loop index of ocr_with_openrouter
    all_text,     \* all_text of ocr_with_openrouter
    log,          \* the stage events of the request, in order
    exc,          \* the exception that reached the handler's except clause
    resp,         \* the HTTP response of the request
    wstate,       \* make_api_request_with_retry: idle, running, returned, raised
    attempt,      \* loop variable of the wrapper
    hist,         \* outcome kind of every attempt of the current wrapper call
    last,         \* the latest attempt: its response or failure, and the jitter
    posts,        \* requests.post calls of the current wrapper call
    sleeps,       \* completed time.sleep calls of the current wrapper call
    slept,        \* the time.sleep of the latest attempt, if any
    wret,         \* the response the wrapper returned
    werr,         \* the exception the wrapper raised
    vision_recovered  \* a vision call got 429 with Retry-After 2, then succeeded

vars == <<request, pc, images, idx, all_text, log, exc, resp, wstate, attempt,
          hist, last, posts, sleeps, slept, wret, werr, vision_recovered>>

handlerVars == <<request, pc, images, idx, all_text, log, exc, resp,
                 vision_recovered>>

wrapperVars == <<wstate, attempt, hist, last, posts, sleeps, slept, wret, werr>>

(***************************************************************************)
(* Exceptions and responses                                                *)
(***************************************************************************)
NoError == [type |-> "none", msg |-> "", status |-> 0, at |-> 0]

\* requests.exceptions.ConnectionError / Timeout raised by requests.post
NetworkError(a) ==
    [type |-> "ConnectionError", msg |-> "connection failed", status |-> 0,
     at |-> a]

\* the HTTPError response.raise_for_status() raises for status s
HTTPError(s, a) ==
    [type |-> "HTTPError",
     msg |-> CASE s = 400 -> "400 Client Error"
               [] s = 429 -> "429 Client Error"
               [] s = 500 -> "500 Server Error"
               [] OTHER -> "HTTP Error",
     status |-> s, at |-> a]

\* Exception("Max retries reached")
MaxRetriesError ==
    [type |-> "Exception", msg |-> "Max retries reached", status |-> 0,
     at |-> max_retries]

\* the ValueError of time.sleep for a negative duration
SleepValueError(a) ==
    [type |-> "ValueError", msg |-> "sleep length must be non-negative",
     status |-> 0, at |-> a]

\* the KeyError of result['choices'][0]['message']['content']
MissingFieldError ==
    [type |-> "KeyError", msg |-> "'choices'", status |-> 0, at |-> 0]

\* the exception convert_from_bytes raises on an unreadable PDF
RasterError ==
    [type |-> "PDFPageCountError", msg |-> "Unable to get page count.",
     status |-> 0, at |-> 0]

\* a handler that hides the exception's message
Str_Generic(e) == "Internal Server Error"

\* str(e)
Str(e) == e.msg

\* a requests.Response: its status code, the headers the code reads, and
\* result['choices'][0]['message']['content'] of its JSON body when present
Response(status, headers, has_content, content) ==
    [status |-> status, headers |-> headers, has_content |-> has_content,
     content |-> content]

NoResponse == Response(0, NoHeaders, FALSE, <<>>)

NoAttempt == [kind |-> "none", response |-> NoResponse, jitter |-> 0, at |-> 0]

NoSleep == [did |-> FALSE, time |-> 0]

\* the reply of the endpoint before the handler has returned
NoReply == [status |-> 0, kind |-> "none", error |-> "", body |-> <<>>]

\* jsonify({'error': message}), code
ErrorReply(code, message) ==
    [status |-> code, kind |-> "json", error |-> message, body |-> <<>>]

\* send_file(csv_bytes, mimetype='text/csv', as_attachment=True, ...)
CsvReply(csv_content) ==
    [status |-> 200, kind |-> "csv", error |-> "", body |-> csv_content]

(***************************************************************************)
(* make_api_request_with_retry                                             *)
(***************************************************************************)
\* response.status_code == 429
IsRateLimited(status) == status = 429

\* response.raise_for_status() raises
RaisesForStatus(status) == status >= 400 /\ status < 600

\* wait_time of the 429 branch, in seconds
WaitTime(headers) ==
    IF headers.present
    THEN LET parsed == ParseInt(headers.value)
         IN  IF parsed.ok THEN parsed.val ELSE DefaultWait
    ELSE DefaultWait

\* wait_time * (2 ** attempt) + random.uniform(0.5, 1.5), in tenths
RateLimitSleepTime(wait_time, a, jitter) == wait_time * 10 * Pow2(a) + jitter

\* 2 ** attempt + random.uniform(0.5, 1.5), in tenths
ErrorSleepTime(a, jitter) == 10 * Pow2(a) + jitter

\* a last-attempt test that is off by one and so never true inside the loop
IsLastAttempt_OffByOne(a) == a = max_retries

\* attempt == max_retries - 1
IsLastAttempt(a) == a = max_retries - 1

\* a loop over range(max_retries + 1)
LoopContinues_OneMore(a) == a + 1 < max_retries + 1

\* for attempt in range(max_retries): the loop has another iteration after a
LoopContinues(a) == a + 1 < max_retries

\* the content sets of the two models
ContentsAt(stage) == IF stage = "ocr" THEN VisionTexts ELSE ChatOutputs

\* the call make_api_request_with_retry(url, headers, json_data)
CallWrapper ==
    /\ wstate' = "running"
    /\ attempt' = 0
    /\ hist' = <<>>
    /\ last' = NoAttempt
    /\ posts' = 0
    /\ sleeps' = 0
    /\ slept' = NoSleep
    /\ wret' = NoResponse
    /\ werr' = NoError

\* the wrapper's frame is gone once its caller has consumed the result
ResetWrapper ==
    /\ wstate' = "idle"
    /\ attempt' = 0
    /\ hist' = <<>>
    /\ last' = NoAttempt
    /\ posts' = 0
    /\ sleeps' = 0
    /\ slept' = NoSleep
    /\ wret' = NoResponse
    /\ werr' = NoError

\* requests.post was called once more, with the outcome kind
Posted(kind, response, jitter) ==
    /\ posts' = posts + 1
    /\ hist' = Append(hist, kind)
    /\ last' = [kind |-> kind, response |-> response, jitter |-> jitter,
                at |-> attempt]

\* the wrapper raises e out of the loop
WrapperRaise(e) ==
    /\ wstate' = "raised"
    /\ werr' = e
    /\ UNCHANGED <<attempt, wret>>

\* time.sleep(t) returned; the for loop goes to its next iteration, or is
\* exhausted and the raise after the loop runs
SleepAndLoop(t) ==
    /\ sleeps' = sleeps + 1
    /\ slept' = [did |-> TRUE, time |-> t]
    /\ IF LoopContinues(attempt)
       THEN /\ attempt' = attempt + 1
            /\ UNCHANGED <<wstate, wret, werr>>
       ELSE WrapperRaise(MaxRetriesError)

\* the clause `except requests.exceptions.RequestException as e`
ExceptRequestException(e, jitter) ==
    IF IsLastAttempt(attempt)
    THEN /\ WrapperRaise(e)
         /\ slept' = NoSleep
         /\ UNCHANGED sleeps
    ELSE SleepAndLoop(ErrorSleepTime(attempt, jitter))

\* an iteration that gets a success status but goes on with the loop instead
\* of returning the response
AttemptSuccess_NoReturn ==
    /\ wstate = "running"
    /\ \E has \in BOOLEAN :
         \E c \in (IF has THEN ContentsAt(pc) ELSE {<<>>}) :
            Posted("ok", Response(200, NoHeaders, has, c), 0)
    /\ IF LoopContinues(attempt)
       THEN /\ attempt' = attempt + 1
            /\ UNCHANGED <<wstate, wret, werr>>
       ELSE WrapperRaise(MaxRetriesError)
    /\ UNCHANGED <<sleeps, slept>>
    /\ UNCHANGED handlerVars

\* an iteration whose post gets a success status: the response is returned
AttemptSuccess ==
    /\ wstate = "running"
    /\ \E has \in BOOLEAN :
         \E c \in (IF has THEN ContentsAt(pc) ELSE {<<>>}) :
            LET r == Response(200, NoHeaders, has, c)
            IN  /\ ~IsRateLimited(r.status)
                /\ ~RaisesForStatus(r.status)
                /\ Posted("ok", r, 0)
                /\ wstate' = "returned"
                /\ wret' = r
    /\ slept' = NoSleep
    /\ vision_recovered' =
         (vision_recovered
            \/ (/\ pc = "ocr"
                /\ hist = <<"429">>
                /\ last.response.headers = [present |-> TRUE, value |-> <<"2">>]))
    /\ UNCHANGED <<attempt, sleeps, werr>>
    /\ UNCHANGED <<request, pc, images, idx, all_text, log, exc, resp>>

\* an iteration whose post gets HTTP 429
AttemptRateLimited ==
    /\ wstate = "running"
    /\ \E h \in RetryAfterHeaders, jitter \in Jitters :
         LET r          == Response(429, h, FALSE, <<>>)
             wait_time  == WaitTime(r.headers)
             sleep_time == RateLimitSleepTime(wait_time, attempt, jitter)
         IN  /\ IsRateLimited(r.status)
             /\ Posted("429", r, jitter)
             /\ IF sleep_time < 0
                THEN \* time.sleep raises ValueError, which the except
                     \* clause does not catch
                     /\ WrapperRaise(SleepValueError(attempt))
                     /\ slept' = NoSleep
                     /\ UNCHANGED sleeps
                ELSE SleepAndLoop(sleep_time)
    /\ UNCHANGED handlerVars

\* an iteration whose post gets an error status other than 429:
\* raise_for_status raises HTTPError, a RequestException
AttemptHTTPError ==
    /\ wstate = "running"
    /\ \E s \in ErrorStatuses, jitter \in Jitters :
         LET r == Response(s, NoHeaders, FALSE, <<>>)
         IN  /\ ~IsRateLimited(r.status)
             /\ RaisesForStatus(r.status)
             /\ Posted("http_error", r, jitter)
             /\ ExceptRequestException(HTTPError(s, attempt), jitter)
    /\ UNCHANGED handlerVars

\* an iteration whose post raises (connection error, timeout)
AttemptNetworkFailure ==
    /\ wstate = "running"
    /\ \E jitter \in Jitters :
         /\ Posted("network", NoResponse, jitter)
         /\ ExceptRequestException(NetworkError(attempt), jitter)
    /\ UNCHANGED handlerVars

(***************************************************************************)
(* text_to_csv: the clean-up of the chat model's output                    *)
(***************************************************************************)
\* a clean-up that leaves the csv tag in place
CleanCsv_KeepTag(content) ==
    IF Contains(content, Fence)
    THEN Strip(SplitSecond(content, Fence))
    ELSE content

\* lines 149-155: the csv_content text_to_csv returns for the model output
CleanCsv(content) ==
    IF Contains(content, Fence)
    THEN LET inner  == SplitSecond(content, Fence)
             untag  == IF StartsWith(inner, CsvTag)
                       THEN SubSeq(inner, Len(CsvTag) + 1, Len(inner))
                       ELSE inner
         IN  Strip(untag)
    ELSE content

(***************************************************************************)
(* pdf_to_csv, ocr_with_openrouter, text_to_csv                            *)
(***************************************************************************)
\* a suffix test that accepts .pdf anywhere in the name
IsPdfName_Anywhere(filename) == Contains(Lower(filename), PdfSuffix)

\* file.filename.lower().endswith('.pdf')
IsPdfName(filename) == EndsWith(Lower(filename), PdfSuffix)

\* the handler returns reply
Return(reply) ==
    /\ resp' = reply
    /\ pc' = "done"

\* an exception leaves the try block
Raise(e) ==
    /\ exc' = e
    /\ pc' = "except"

\* lines 168-180: the checks on the upload
Intake ==
    /\ pc = "intake"
    /\ IF ~request.has_file
       THEN Return(ErrorReply(400, "No file provided"))
       ELSE IF request.filename = <<>>
       THEN Return(ErrorReply(400, "Empty filename"))
       ELSE IF ~IsPdfName(request.filename)
       THEN Return(ErrorReply(400, "File must be a PDF"))
       ELSE /\ pc' = "raster"
            /\ UNCHANGED resp
    /\ UNCHANGED <<request, images, idx, all_text, log, exc, vision_recovered>>
    /\ UNCHANGED wrapperVars

\* images = pdf_to_images(pdf_bytes), and the entry of ocr_with_openrouter
RasterizeOk ==
    /\ pc = "raster"
    /\ \E n \in 0..MaxPages : images' = n
    /\ idx' = 0
    /\ all_text' = <<>>
    /\ log' = Append(log, [ev |-> "raster_done", page |-> 0])
    /\ pc' = "ocr"
    /\ UNCHANGED <<request, exc, resp, vision_recovered>>
    /\ UNCHANGED wrapperVars

\* convert_from_bytes raises
RasterizeFail ==
    /\ pc = "raster"
    /\ Raise(RasterError)
    /\ UNCHANGED <<request, images, idx, all_text, log, resp, vision_recovered>>
    /\ UNCHANGED wrapperVars

\* one iteration of the loop of ocr_with_openrouter up to the wrapper call
VisionCall ==
    /\ pc = "ocr"
    /\ wstate = "idle"
    /\ idx < images
    /\ log' = Append(log, [ev |-> "vision_start", page |-> idx + 1])
    /\ CallWrapper
    /\ UNCHANGED <<request, pc, images, idx, all_text, exc, resp,
                   vision_recovered>>

\* lines 113-115: the vision response is parsed and its text appended
VisionParse ==
    /\ pc = "ocr"
    /\ wstate = "returned"
    /\ IF wret.has_content
       THEN /\ all_text' = Append(all_text,
                                  [page |-> idx + 1, text |-> wret.content])
            /\ idx' = idx + 1
            /\ log' = Append(log, [ev |-> "vision_ok", page |-> idx + 1])
            /\ UNCHANGED <<pc, exc>>
       ELSE /\ Raise(MissingFieldError)
            /\ UNCHANGED <<all_text, idx, log>>
    /\ ResetWrapper
    /\ UNCHANGED <<request, images, resp, vision_recovered>>

\* a reformatting call that does not wait for the remaining pages
ChatCall_Early ==
    /\ pc = "ocr"
    /\ wstate = "idle"
    /\ idx <= images
    /\ pc' = "csv"
    /\ log' = Append(log, [ev |-> "reformat_start", page |-> 0])
    /\ CallWrapper
    /\ UNCHANGED <<request, images, idx, all_text, exc, resp, vision_recovered>>

\* ocr_with_openrouter returns the joined text; text_to_csv runs up to its
\* wrapper call
ChatCall ==
    /\ pc = "ocr"
    /\ wstate = "idle"
    /\ idx = images
    /\ pc' = "csv"
    /\ log' = Append(log, [ev |-> "reformat_start", page |-> 0])
    /\ CallWrapper
    /\ UNCHANGED <<request, images, idx, all_text, exc, resp, vision_recovered>>

\* lines 145-200: the chat response is parsed, cleaned and sent as the file
ChatParse ==
    /\ pc = "csv"
    /\ wstate = "returned"
    /\ IF wret.has_content
       THEN /\ Return(CsvReply(CleanCsv(wret.content)))
            /\ log' = Append(log, [ev |-> "reformat_ok", page |-> 0])
            /\ UNCHANGED exc
       ELSE /\ Raise(MissingFieldError)
            /\ UNCHANGED <<resp, log>>
    /\ UNCHANGED <<request, images, idx, all_text, vision_recovered>>
    /\ UNCHANGED wrapperVars

\* the exception of the wrapper propagates through the stage to the handler
WrapperRaised ==
    /\ pc \in {"ocr", "csv"}
    /\ wstate = "raised"
    /\ Raise(werr)
    /\ UNCHANGED <<request, images, idx, all_text, log, resp, vision_recovered>>
    /\ UNCHANGED wrapperVars

\* lines 202-203: except Exception as e
Except ==
    /\ pc = "except"
    /\ Return(ErrorReply(500, Str(exc)))
    /\ UNCHANGED <<request, images, idx, all_text, log, exc, vision_recovered>>
    /\ UNCHANGED wrapperVars

(***************************************************************************)
(* Specification                                                           *)
(***************************************************************************)
Init ==
    /\ request \in Requests
    /\ pc = "intake"
    /\ images = 0
    /\ idx = 0
    /\ all_text = <<>>
    /\ log = <<>>
    /\ exc = NoError
    /\ resp = NoReply
    /\ wstate = "idle"
    /\ attempt = 0
    /\ hist = <<>>
    /\ last = NoAttempt
    /\ posts = 0
    /\ sleeps = 0
    /\ slept = NoSleep
    /\ wret = NoResponse
    /\ werr = NoError
    /\ vision_recovered = FALSE

Next ==
    \/ Intake
    \/ RasterizeOk
    \/ RasterizeFail
    \/ VisionCall
    \/ AttemptSuccess
    \/ AttemptRateLimited
    \/ AttemptHTTPError
    \/ AttemptNetworkFailure
    \/ VisionParse
    \/ ChatCall
    \/ ChatParse
    \/ WrapperRaised
    \/ Except

Spec == Init /\ [][Next]_vars

\* One call of make_api_request_with_retry on its own: the state right after
\* VisionCall for the only page of a one-page upload, or right after
\* ChatCall for an upload without pages
RetryInit ==
    /\ request = [has_file |-> TRUE, filename |-> <<"a", ".", "p", "d", "f">>]
    /\ pc \in {"ocr", "csv"}
    /\ images = (IF pc = "ocr" THEN 1 ELSE 0)
    /\ idx = 0
    /\ all_text = <<>>
    /\ log = <<[ev |-> "raster_done", page |-> 0],
               IF pc = "ocr" THEN [ev |-> "vision_start", page |-> 1]
               ELSE [ev |-> "reformat_start", page |-> 0]>>
    /\ exc = NoError
    /\ resp = NoReply
    /\ wstate = "running"
    /\ attempt = 0
    /\ hist = <<>>
    /\ last = NoAttempt
    /\ posts = 0
    /\ sleeps = 0
    /\ slept = NoSleep
    /\ wret = NoResponse
    /\ werr = NoError
    /\ vision_recovered = FALSE

\* the iterations of the wrapper's loop
RetryNext ==
    \/ AttemptSuccess
    \/ AttemptRateLimited
    \/ AttemptHTTPError
    \/ AttemptNetworkFailure

\* requests.post and time.sleep return, so the loop keeps taking iterations
\* while it has one to take
RetrySpec == RetryInit /\ [][RetryNext]_vars /\ WF_vars(RetryNext)

TypeOK ==
    /\ pc \in {"intake", "raster", "ocr", "csv", "except", "done"}
    /\ wstate \in {"idle", "running", "returned", "raised"}
    /\ images \in 0..MaxPages
    /\ idx \in 0..images
    /\ attempt \in 0..(max_retries - 1)
    /\ posts \in 0..max_retries
    /\ sleeps \in 0..max_retries

(***************************************************************************)
(* Properties of make_api_request_with_retry                               *)
(***************************************************************************)
\* every attempt before the latest one failed with 429 or at network level
EarlierAttemptsRetryable ==
    \A i \in 1..(Len(hist) - 1) : hist[i] \in {"429", "network"}

\* all max_retries attempts were made and each failed with 429 or at
\* network level
AllAttemptsFailed ==
    /\ Len(hist) = max_retries
    /\ \A i \in 1..Len(hist) : hist[i] \in {"429", "network"}

\* the error the latest attempt stands for
ErrorOfLastAttempt ==
    IF last.kind = "network" THEN NetworkError(last.at)
    ELSE HTTPError(last.response.status, last.at)

\* C1: an attempt that gets an error status other than 429 makes the wrapper
\* raise that HTTP error at once, with no sleep and no further attempt
C1_OtherStatusFailsImmediately ==
    last.kind = "http_error" =>
        /\ wstate = "raised"
        /\ werr = HTTPError(last.response.status, last.at)
        /\ ~slept.did
        /\ posts = last.at + 1

\* C2: when all 5 attempts fail with 429 or a network failure, the error
\* raised is the error of the fifth attempt
C2_LastErrorPropagated ==
    AllAttemptsFailed =>
        /\ wstate = "raised"
        /\ werr = ErrorOfLastAttempt

\* C2 (amended): when all 5 attempts fail with 429 or a network failure, the
\* wrapper raises the fifth attempt's own error if that attempt failed at
\* network level; if it got 429 the wrapper raises the generic
\* Exception("Max retries reached") after its backoff sleep, or the
\* ValueError of time.sleep when the computed sleep time is negative
C2_ExhaustedError ==
    AllAttemptsFailed =>
        /\ wstate = "raised"
        /\ last.at = max_retries - 1
        /\ last.kind = "network" =>
              /\ werr = NetworkError(max_retries - 1)
              /\ ~slept.did
        /\ last.kind = "429" =>
              LET t == RateLimitSleepTime(WaitTime(last.response.headers),
                                          last.at, last.jitter)
              IN  IF t < 0
                  THEN werr = SleepValueError(max_retries - 1) /\ ~slept.did
                  ELSE werr = MaxRetriesError /\ slept.did

C2_Witness ==
    /\ AllAttemptsFailed
    /\ last.kind = "429"
    /\ werr = MaxRetriesError
    /\ \E i \in 1..Len(hist) : hist[i] = "network"

\* C3: one wrapper call makes at most 5 POST attempts whatever the outcomes
\* are, and a running call always ends by returning or raising
C3_BoundedAndTerminates ==
    /\ [](posts <= max_retries /\ Len(hist) = posts)
    /\ (wstate = "running" ~> wstate \in {"returned", "raised"})

C3_Witness ==
    /\ posts = max_retries
    /\ wstate = "raised"
    /\ \E i \in 1..Len(hist) : hist[i] = "http_error"
    /\ \E i \in 1..Len(hist) : hist[i] = "429"
    /\ \E i \in 1..Len(hist) : hist[i] = "network"

\* C7: when the attempts before attempt k failed with 429 or at network
\* level and attempt k gets a success status, the wrapper returns the
\* response of attempt k unmodified and makes no further attempt
C7_SuccessAfterRetries ==
    /\ [](last.kind = "ok" /\ EarlierAttemptsRetryable =>
            /\ wstate = "returned"
            /\ wret = last.response
            /\ wret.status = 200
            /\ posts = last.at + 1)
    /\ [][wstate = "returned" => posts' = posts \/ posts' = 0]_vars

\* a request that ends with 200 although a vision call was rate limited with
\* Retry-After 2 before it succeeded, and whose last call needed 5 attempts
C7_Witness ==
    /\ resp.status = 200
    /\ vision_recovered
    /\ Len(hist) = max_retries
    /\ EarlierAttemptsRetryable
    /\ wret = last.response

\* the text is a decimal numeral: an optional sign, digits, and optionally a
\* point followed by digits
IsNumeric(text) ==
    LET s      == Strip(text)
        signed == s # <<>> /\ s[1] \in {"+", "-"}
        body   == IF signed THEN Tail(s) ELSE s
        points == {i \in 1..Len(body) : body[i] = "."}
    IN  /\ body # <<>>
        /\ Cardinality(points) <= 1
        /\ \A i \in 1..Len(body) : body[i] \in Digits \cup {"."}
        /\ \E i \in 1..Len(body) : body[i] \in Digits

\* the value of a numeral with at most one fraction digit, in tenths
NumericTenths(text) ==
    LET s      == Strip(text)
        neg    == s # <<>> /\ s[1] = "-"
        body   == IF s # <<>> /\ s[1] \in {"+", "-"} THEN Tail(s) ELSE s
        point  == FindFrom(body, <<".">>, 1)
        whole  == IF point = 0 THEN body ELSE SubSeq(body, 1, point - 1)
        frac   == IF point = 0 \/ point = Len(body) THEN 0
                  ELSE DigitVal(body[point + 1])
        abs    == 10 * DigitsVal(whole) + frac
    IN  IF neg THEN 0 - abs ELSE abs

\* the wait hint the 429 branch is said to use, in tenths: the Retry-After
\* value when the header is present and numeric, 5 seconds otherwise
HintTenths(headers) ==
    IF headers.present /\ IsNumeric(headers.value)
    THEN NumericTenths(headers.value)
    ELSE 10 * DefaultWait

\* C8: every attempt that gets 429 sleeps hint * 2^attempt + jitter seconds,
\* jitter in [0.5, 1.5), and then the wrapper retries
C8_RateLimitBackoff ==
    last.kind = "429" =>
        /\ slept.did
        /\ slept.time = HintTenths(last.response.headers) * Pow2(last.at)
                            + last.jitter
        /\ last.jitter >= 5
        /\ last.jitter < 15
        /\ wstate = "running"
        /\ attempt = last.at + 1

\* C10: the wrapper never sleeps after its final attempt: when a call has
\* ended, it has slept fewer times than it has posted
C10_NoSleepAfterFinalAttempt ==
    wstate \in {"returned", "raised"} => sleeps < posts

(***************************************************************************)
(* Properties of the request pipeline                                      *)
(***************************************************************************)
RECURSIVE VisionEvents(_)
\* the events of the vision calls for pages 1..n, one call after the other
VisionEvents(n) ==
    IF n = 0 THEN <<>>
    ELSE VisionEvents(n - 1) \o <<[ev |-> "vision_start", page |-> n],
                                  [ev |-> "vision_ok", page |-> n]>>

\* the events of a request that runs all its stages over n pages
FullRun(n) ==
    <<[ev |-> "raster_done", page |-> 0]>> \o VisionEvents(n)
        \o <<[ev |-> "reformat_start", page |-> 0],
             [ev |-> "reformat_ok", page |-> 0]>>

IsPrefix(s, t) == Len(s) <= Len(t) /\ SubSeq(t, 1, Len(s)) = s

\* C4: the stages of an accepted upload with N pages run strictly in order:
\* rasterization, then one vision call per page in page order, each started
\* after the one before has returned, then one reformatting call, which
\* starts only after all N vision calls have succeeded
C4_StagesInOrder ==
    /\ IsPrefix(log, FullRun(images))
    /\ pc = "csv" => Len(all_text) = images /\ idx = images
    /\ resp.status = 200 => log = FullRun(images)
    /\ wstate # "idle" =>
          log[Len(log)].ev \in {"vision_start", "reformat_start", "reformat_ok"}

C4_Witness ==
    /\ resp.status = 200
    /\ images = 2
    /\ log = FullRun(2)

\* C5: when a stage of an accepted request raises, the request ends with
\* HTTP 500 and a JSON error carrying the exception's message, no later
\* stage runs, and no CSV body is returned
C5_FailureIs500 ==
    /\ [](exc # NoError /\ pc = "done" =>
            /\ resp.status = 500
            /\ resp.kind = "json"
            /\ resp.error = exc.msg
            /\ resp.body = <<>>)
    /\ [](wstate = "raised" /\ pc = "done" =>
            resp.status = 500 /\ resp.error = werr.msg)
    /\ [][wstate = "raised" /\ pc \in {"ocr", "csv"} =>
            pc' = "except" /\ exc' = werr]_vars
    /\ [][pc = "except" => pc' = "done" /\ resp'.status = 500]_vars
    /\ [][exc # NoError \/ wstate = "raised" =>
            log' = log /\ posts' = posts /\ all_text' = all_text]_vars

\* a second page's response lacks the expected fields after the first page's
\* text was extracted
C5_Witness ==
    /\ pc = "done"
    /\ exc = MissingFieldError
    /\ Len(all_text) = 1
    /\ images = 2
    /\ resp.status = 500

\* the filename ends in .pdf in some mix of upper and lower case
HasPdfSuffixAnyCase(f) ==
    /\ Len(f) >= 4
    /\ f[Len(f) - 3] = "."
    /\ f[Len(f) - 2] \in {"p", "P"}
    /\ f[Len(f) - 1] \in {"d", "D"}
    /\ f[Len(f)] \in {"f", "F"}

\* the upload has no file part, an empty filename or a non-.pdf filename
InvalidUpload ==
    \/ ~request.has_file
    \/ request.filename = <<>>
    \/ ~HasPdfSuffixAnyCase(request.filename)

\* C6: an upload with no file, an empty filename or a filename not ending
\* in .pdf (in any case) is answered with 400 and a JSON error, before any
\* rasterization and any outbound call
C6_InvalidUploadIs400 ==
    InvalidUpload =>
        /\ pc \in {"intake", "done"}
        /\ log = <<>>
        /\ posts = 0
        /\ wstate = "idle"
        /\ pc = "done" =>
              /\ resp.status = 400
              /\ resp.kind = "json"
              /\ resp.error # ""

C6_Witness ==
    /\ pc = "done"
    /\ request.has_file
    /\ request.filename = <<"a", ".", "p", "d", "f", "x">>
    /\ resp = ErrorReply(400, "File must be a PDF")

AllWhitespace(s) == \A i \in 1..Len(s) : s[i] \in Whitespace

\* b is t without its leading and trailing whitespace
IsTrimOf(b, t) ==
    /\ b = <<>> \/ (b[1] \notin Whitespace /\ b[Len(b)] \notin Whitespace)
    /\ \E i \in 0..Len(t) : \E j \in i..Len(t) :
          /\ SubSeq(t, i + 1, j) = b
          /\ AllWhitespace(SubSeq(t, 1, i))
          /\ AllWhitespace(SubSeq(t, j + 1, Len(t)))

\* out is one fenced block, opened at i and closed at j, with at most
\* whitespace around it
IsFencedAt(out, i, j) ==
    /\ OccursAt(out, Fence, i)
    /\ OccursAt(out, Fence, j)
    /\ j >= i + Len(Fence)
    /\ \A k \in 1..Len(out) : OccursAt(out, Fence, k) => k \in {i, j}
    /\ AllWhitespace(SubSeq(out, 1, i - 1))
    /\ AllWhitespace(SubSeq(out, j + Len(Fence), Len(out)))

\* C9: the CSV body of a successful request is fixed by the chat model's
\* output: the output itself when it has no fence, and for a fenced output
\* the text inside the fence without the csv tag and surrounding whitespace
C9_CsvBody ==
    resp.status = 200 =>
        LET out == wret.content
        IN  /\ resp.kind = "csv"
            /\ ~(\E k \in 1..Len(out) : OccursAt(out, Fence, k)) =>
                  resp.body = out
            /\ \A i \in 1..Len(out) : \A j \in 1..Len(out) :
                  IsFencedAt(out, i, j) =>
                     LET inner == SubSeq(out, i + Len(Fence), j - 1)
                         tagged == /\ Len(inner) >= 3
                                   /\ inner[1] = "c"
                                   /\ inner[2] = "s"
                                   /\ inner[3] = "v"
                         text == IF tagged THEN SubSeq(inner, 4, Len(inner))
                                 ELSE inner
                     IN  IsTrimOf(resp.body, text)

C9_Witness ==
    /\ resp.status = 200
    /\ wret.content = Fence \o CsvTag \o <<"\n", "a", ",", "b", "\n">> \o Fence
    /\ resp.body = <<"a", ",", "b">>

====
